---------------------------- MODULE Spec2Model ----------------------------
(***************************************************************************)
(* A model of the catalog utilities (frb/surveys/catalog_utils.py) and of  *)
(* the nebular line analysis (frb/galaxies/nebular.py) of the FRB package. *)
(*                                                                         *)
(* Every function of the package that is modelled here is a synchronous    *)
(* call: a specification draws the arguments of one call in its initial    *)
(* state and its actions run the call to its end.  numpy arrays are        *)
(* functions over 0..n-1, as in the source, so that row numbers and the    *)
(* -1 "no match" value read as they do in Python.                          *)
(*                                                                         *)
(* Real numbers are exact decimals c * 10^e * pi^p (records [c, e, p]),    *)
(* normalised so that equal numbers are equal records.  Magnitudes are     *)
(* multiples of 2.5 mag so that 10^(mag/2.5) is such a decimal.            *)
(***************************************************************************)
EXTENDS Integers, Sequences, FiniteSets, TLC

VARIABLES
    pc,                 \* position of the caller: "start", then the call's end
    IDs,                \* match_ids: the ids to look up
    match_IDs,          \* match_ids: the ids of the reference table
    require_in_match,   \* match_ids: strict matching?
    match_ret,          \* match_ids: [raised, rows]
    photometry_table,   \* convert_mags_to_flux: the caller's table (magnitudes)
    fluxtable,          \* convert_mags_to_flux: the returned table
    neb_lines,          \* calc_lum, calc_SFR: line fluxes and errors
    z,                  \* calc_lum, calc_SFR: redshift
    AV,                 \* calc_lum, calc_SFR: [given, val], AV=None is given=FALSE
    lum_ret,            \* calc_lum: per line, the last (Lum, Lum_err) returned
    sfr_ret,            \* calc_SFR: per method, the last outcome
    lum_calls,          \* number of times calc_lum has run
    catalog,            \* sort_by_separation, summarize_catalog: the caller's table
    coord,              \* reference coordinate (ra, on the equator)
    cat_args,           \* the other arguments of the catalog call
    cat_ret             \* the outcome of the catalog call

vars == <<pc, IDs, match_IDs, require_in_match, match_ret, photometry_table,
          fluxtable, neb_lines, z, AV, lum_ret, sfr_ret, lum_calls,
          catalog, coord, cat_args, cat_ret>>

matchVars == <<IDs, match_IDs, require_in_match, match_ret>>
fluxVars == <<photometry_table, fluxtable>>
nebVars == <<neb_lines, z, AV, lum_ret, sfr_ret, lum_calls>>
catVars == <<catalog, coord, cat_args, cat_ret>>

(***************************************************************************)
(* Bounds of the model.                                                    *)
(***************************************************************************)
NumIds == 3         \* distinct id values 1..NumIds
MaxIDs == 2         \* longest IDs array
MaxMatch == 3       \* longest match_IDs array
MaxCols == 2        \* most magnitude columns in a photometry table
NRows == 2          \* rows of a photometry table
MaxMag == 1         \* magnitudes are 2.5 * k mag, k in -1..MaxMag
MaxFlux == 2        \* line fluxes are f and 2.8 * f, f in 1..MaxFlux
MaxFluxErr == 1     \* line flux errors are -999 and -1..MaxFluxErr
MaxZ == 2           \* redshifts 1..MaxZ
MaxAV == 1          \* AV is None or 2.5 * k mag, k in 0..MaxAV
MaxSrc == 2         \* most sources (rows) of a catalog
MaxRa == 2          \* right ascensions 0..MaxRa degrees
MaxPhot == 2        \* photometry values 1..MaxPhot
MaxRadius == 2      \* summary radii 1..MaxRadius degrees

(***************************************************************************)
(* Arrays.                                                                 *)
(***************************************************************************)
ArrLen(a) == Cardinality(DOMAIN a)

Arrays(S, n) == UNION {[0..(k - 1) -> S] : k \in 0..n}

EmptyArr == [i \in {} |-> 0]

Min(S) == CHOOSE x \in S : \A y \in S : x <= y

(***************************************************************************)
(* Exact decimals.                                                         *)
(***************************************************************************)
RECURSIVE Pow10(_)
Pow10(n) == IF n <= 0 THEN 1 ELSE 10 * Pow10(n - 1)

RECURSIVE Norm(_, _, _)
Norm(c, e, p) ==
    IF c = 0 THEN [c |-> 0, e |-> 0, p |-> 0]
    ELSE IF c % 10 = 0 THEN Norm(c \div 10, e + 1, p)
    ELSE [c |-> c, e |-> e, p |-> p]

Dec(c, e) == Norm(c, e, 0)

DInt(n) == Norm(n, 0, 0)

DMul(a, b) == Norm(a.c * b.c, a.e + b.e, a.p + b.p)

\* a + b, for numbers with the same power of pi
DAdd(a, b) ==
    LET m == IF a.e < b.e THEN a.e ELSE b.e
    IN  Norm(a.c * Pow10(a.e - m) + b.c * Pow10(b.e - m), m,
             IF a.c = 0 THEN b.p ELSE a.p)

DNeg(a) == [a EXCEPT !.c = -a.c]

DLess0(a) == a.c < 0

DGreater0(a) == a.c > 0

\* the integer a decimal is (e >= 0)
DToInt(a) == a.c * Pow10(a.e)

\* 10 ** x for a decimal x that is an integer
DExp10(x) == [c |-> 1, e |-> DToInt(x), p |-> 0]

\* x / 2.5
DDiv2p5(x) == DMul(x, Dec(4, -1))

(***************************************************************************)
(* match_ids                                                               *)
(***************************************************************************)
IdVals == 1..NumIds

\* np.in1d(IDs, match_IDs)
in1d(a, b) == [i \in DOMAIN a |-> \E j \in DOMAIN b : b[j] = a[i]]

\* a[mask]: the selected elements, in order
Rank(mask, i) == Cardinality({k \in DOMAIN mask : k < i /\ mask[k]})

Compress(a, mask) ==
    [k \in 0..(Cardinality({i \in DOMAIN a : mask[i]}) - 1) |->
        a[CHOOSE i \in DOMAIN a : mask[i] /\ Rank(mask, i) = k]]

\* np.argsort(a) with the default kind ('quicksort', not stable): every
\* permutation that sorts a; the order among equal elements is unspecified.
ArgSorts(a) ==
    {p \in [DOMAIN a -> DOMAIN a] :
        /\ \A i, j \in DOMAIN a : i # j => p[i] # p[j]
        /\ \A i, j \in DOMAIN a : i < j => a[p[i]] <= a[p[j]]}

\* np.searchsorted(a, v, sorter=sorter), side='left', for one value v
searchsorted(a, v, sorter) ==
    Min({p \in DOMAIN a : a[sorter[p]] >= v} \cup {ArrLen(a)})

\* lines 111-113: the strict-match check
MustRaise_AnyMatch(ids, mids, req) ==
    req /\ \E i \in DOMAIN ids : in1d(ids, mids)[i]

MustRaise(ids, mids, req) ==
    req /\ Cardinality({i \in DOMAIN ids : ~in1d(ids, mids)[i]}) > 0

\* lines 108-122 after the check, for one outcome xsorted of the argsort
MatchRows(ids, mids, xsorted) ==
    LET in_match == in1d(ids, mids)
        IDs_inmatch == Compress(ids, in_match)
        ypos == [k \in DOMAIN IDs_inmatch |->
                    searchsorted(mids, IDs_inmatch[k], xsorted)]
        indices == [k \in DOMAIN ypos |-> xsorted[ypos[k]]]
    IN  [i \in DOMAIN ids |->
            IF in_match[i] THEN indices[Rank(in_match, i)] ELSE -1]

NoRows == EmptyArr

match_ids ==
    /\ pc = "start"
    /\ pc' = "match_ids"
    /\ IF MustRaise(IDs, match_IDs, require_in_match)
       THEN match_ret' = [raised |-> TRUE, rows |-> NoRows]
       ELSE \E xsorted \in ArgSorts(match_IDs) :
                match_ret' = [raised |-> FALSE,
                              rows |-> MatchRows(IDs, match_IDs, xsorted)]
    /\ UNCHANGED <<IDs, match_IDs, require_in_match>>
    /\ UNCHANGED <<fluxVars, nebVars, catVars>>

(***************************************************************************)
(* Idle values of the variables a specification does not use.              *)
(***************************************************************************)
IdleMatch ==
    /\ IDs = EmptyArr
    /\ match_IDs = EmptyArr
    /\ require_in_match = TRUE
    /\ match_ret = [raised |-> FALSE, rows |-> NoRows]

IdleFlux ==
    /\ photometry_table = EmptyArr
    /\ fluxtable = EmptyArr

IdleNeb ==
    /\ neb_lines = EmptyArr
    /\ z = 1
    /\ AV = [given |-> FALSE, val |-> DInt(0)]
    /\ lum_ret = EmptyArr
    /\ sfr_ret = EmptyArr
    /\ lum_calls = 0

IdleCat ==
    /\ catalog = EmptyArr
    /\ coord = 0
    /\ cat_args = EmptyArr
    /\ cat_ret = EmptyArr

(***************************************************************************)
(* The calls of match_ids.                                                 *)
(***************************************************************************)
InitMatch ==
    /\ pc = "start"
    /\ IDs \in Arrays(IdVals, MaxIDs)
    /\ match_IDs \in Arrays(IdVals, MaxMatch)
    /\ require_in_match \in BOOLEAN
    /\ match_ret = [raised |-> FALSE, rows |-> NoRows]
    /\ IdleFlux /\ IdleNeb /\ IdleCat

NextMatch == match_ids

SpecMatch == InitMatch /\ [][NextMatch]_vars

(***************************************************************************)
(* convert_mags_to_flux                                                    *)
(*                                                                         *)
(* A table is a function from column names to columns (arrays of exact     *)
(* decimals).  frb.galaxies.defs.valid_filters is the registry of filter   *)
(* names; the tests on names ("W" in col, "VISTA" in col, "WISE" in mag)   *)
(* and mag.replace("W", "WISE") are tabulated for its names.               *)
(***************************************************************************)
valid_filters ==
    <<"DES_g", "DES_r", "VISTA_Y", "VISTA_J", "VISTA_H", "VISTA_Ks",
      "W1", "W2", "W3", "W4">>

FilterNames == {valid_filters[i] : i \in DOMAIN valid_filters}

\* filt + "_err"
ErrName ==
    [f \in FilterNames |->
        CASE f = "DES_g" -> "DES_g_err"
          [] f = "DES_r" -> "DES_r_err"
          [] f = "VISTA_Y" -> "VISTA_Y_err"
          [] f = "VISTA_J" -> "VISTA_J_err"
          [] f = "VISTA_H" -> "VISTA_H_err"
          [] f = "VISTA_Ks" -> "VISTA_Ks_err"
          [] f = "W1" -> "W1_err"
          [] f = "W2" -> "W2_err"
          [] f = "W3" -> "W3_err"
          [] f = "W4" -> "W4_err"]

ErrNames == {ErrName[f] : f \in FilterNames}

\* the order of Python's sorted() and of np.setdiff1d on these names
NameOrder ==
    <<"DES_g", "DES_g_err", "DES_r", "DES_r_err",
      "VISTA_H", "VISTA_H_err", "VISTA_J", "VISTA_J_err",
      "VISTA_Ks", "VISTA_Ks_err", "VISTA_Y", "VISTA_Y_err",
      "W1", "W1_err", "W2", "W2_err", "W3", "W3_err", "W4", "W4_err">>

sorted(S) == SelectSeq(NameOrder, LAMBDA n : n \in S)

ContainsW(col) == col \in {"W1", "W2", "W3", "W4",
                           "W1_err", "W2_err", "W3_err", "W4_err"}

ContainsVISTA(col) ==
    col \in {"VISTA_Y", "VISTA_J", "VISTA_H", "VISTA_Ks", "VISTA_Y_err",
             "VISTA_J_err", "VISTA_H_err", "VISTA_Ks_err"}

ContainsWISE(col) == FALSE

\* col.replace("W", "WISE")
ReplaceW(col) ==
    CASE col = "W1" -> "WISE1" [] col = "W1_err" -> "WISE1_err"
      [] col = "W2" -> "WISE2" [] col = "W2_err" -> "WISE2_err"
      [] col = "W3" -> "WISE3" [] col = "W3_err" -> "WISE3_err"
      [] col = "W4" -> "WISE4" [] col = "W4_err" -> "WISE4_err"
      [] OTHER -> col

\* _detect_mag_cols: the registry's names, and their _err names, that are
\* columns of the table
DetectMagCols(t) == {f \in FilterNames : f \in DOMAIN t}

DetectMagErrCols(t) == {e \in ErrNames : e \in DOMAIN t}

\* units.mJy.to(fluxunits) for the default fluxunits=units.mJy
convert == DInt(1)

wise_fnu0 == <<Dec(30954, -2), Dec(171787, -3), Dec(31674, -3), Dec(8363, -3)>>

vista_fnu0 == <<Dec(208732, -2), Dec(155403, -2), Dec(10304, -1), Dec(67483, -2)>>

AB_fnu0 == Dec(36307805, -4)

BadValue == DInt(-99)

\* fnu0*10**(-mag/2.5)*1000*convert
MagToFlux(fnu0, mag) ==
    DMul(DMul(DMul(fnu0, DExp10(DNeg(DDiv2p5(mag)))), DInt(1000)), convert)

\* flux*(10**(mag_err/2.5)-1)
ErrToFlux(flux, mag_err) ==
    DMul(flux, DAdd(DExp10(DDiv2p5(mag_err)), DInt(-1)))

\* the body of each of the three loops: one (mag, err) pair of columns
ConvertPair(ft, pt, mag, err, fnu0) ==
    LET newmag == [r \in DOMAIN ft[mag] |->
                      IF DLess0(ft[mag][r]) THEN BadValue
                      ELSE MagToFlux(fnu0, pt[mag][r])]
        ft1 == [ft EXCEPT ![mag] = newmag]
        newerr == [r \in DOMAIN ft1[err] |->
                      IF DLess0(ft1[err][r]) THEN BadValue
                      ELSE ErrToFlux(ft1[mag][r], pt[err][r])]
    IN  [ft1 EXCEPT ![err] = newerr]

\* Table.rename_column
RenameColumn(t, old, new) ==
    [c \in (DOMAIN t \ {old}) \cup {new} |-> IF c = new THEN t[old] ELSE t[c]]

\* the number of tuples zip() yields
ZipLen(a, b) == Min({Len(a), Len(b)})

ZipLen3(a, b, c) == Min({Len(a), Len(b), Len(c)})

\* lines 223-232: for mag,err,fnu0 in zip(wisecols,wise_errcols,wise_fnu0)
RECURSIVE WiseLoop(_, _, _, _, _)
WiseLoop(ft, pt, mags, errs, i) ==
    IF i > ZipLen3(mags, errs, wise_fnu0) THEN ft
    ELSE LET ft1 == ConvertPair(ft, pt, mags[i], errs[i], wise_fnu0[i])
             ft2 == IF ~ContainsWISE(mags[i])
                    THEN RenameColumn(
                             RenameColumn(ft1, mags[i], ReplaceW(mags[i])),
                             errs[i], ReplaceW(errs[i]))
                    ELSE ft1
         IN  WiseLoop(ft2, pt, mags, errs, i + 1)

\* lines 236-242: for mag,err,fnu0 in zip(vistacols,vista_errcols,vista_fnu0)
RECURSIVE VistaLoop(_, _, _, _, _)
VistaLoop(ft, pt, mags, errs, i) ==
    IF i > ZipLen3(mags, errs, vista_fnu0) THEN ft
    ELSE VistaLoop(ConvertPair(ft, pt, mags[i], errs[i], vista_fnu0[i]),
                   pt, mags, errs, i + 1)

\* lines 247-253: for mag,err in zip(other_mags,other_errs)
RECURSIVE OtherLoop(_, _, _, _, _)
OtherLoop(ft, pt, mags, errs, i) ==
    IF i > ZipLen(mags, errs) THEN ft
    ELSE OtherLoop(ConvertPair(ft, pt, mags[i], errs[i], AB_fnu0),
                   pt, mags, errs, i + 1)

\* lines 244-245: np.setdiff1d(mag_cols, wisecols) and the same of the errors
OtherMags(mag_cols, wisecols) == sorted(mag_cols \ wisecols)

OtherErrs(mag_errcols, wise_errcols) == sorted(mag_errcols \ wise_errcols)

ConvertTable(pt) ==
    LET mag_cols == DetectMagCols(pt)
        mag_errcols == DetectMagErrCols(pt)
        wisecols == {c \in mag_cols : ContainsW(c)}
        wise_errcols == {c \in mag_errcols : ContainsW(c)}
        vistacols == {c \in mag_cols : ContainsVISTA(c)}
        vista_errcols == {c \in mag_errcols : ContainsVISTA(c)}
        ft0 == pt
        ft1 == WiseLoop(ft0, pt, sorted(wisecols), sorted(wise_errcols), 1)
        ft2 == VistaLoop(ft1, pt, sorted(vistacols), sorted(vista_errcols), 1)
    IN  OtherLoop(ft2, pt, OtherMags(mag_cols, wisecols),
                  OtherErrs(mag_errcols, wise_errcols), 1)

convert_mags_to_flux ==
    /\ pc = "start"
    /\ pc' = "convert_mags_to_flux"
    /\ fluxtable' = ConvertTable(photometry_table)
    /\ UNCHANGED photometry_table
    /\ UNCHANGED <<matchVars, nebVars, catVars>>

\* the magnitudes and magnitude errors of the model's tables
MagVals == {Dec(25 * k, -1) : k \in (-1)..MaxMag}

MagErrVals == {Dec(25 * k, -1) : k \in {-1, 1}}

Rows == 0..(NRows - 1)

TablesOf(M, E) ==
    {t \in [M \cup {ErrName[f] : f \in E} -> [Rows -> MagVals \cup MagErrVals]] :
        /\ \A f \in M : \A r \in Rows : t[f][r] \in MagVals
        /\ \A f \in E : \A r \in Rows : t[ErrName[f]][r] \in MagErrVals}

\* the tables with at most n magnitude columns
Tables(n) ==
    UNION {TablesOf(M, E) :
             <<M, E>> \in {me \in (SUBSET FilterNames) \X (SUBSET FilterNames) :
                             /\ Cardinality(me[1]) <= n
                             /\ me[2] \subseteq me[1]}}

InitFlux ==
    /\ pc = "start"
    /\ photometry_table \in Tables(MaxCols)
    /\ fluxtable = EmptyArr
    /\ IdleMatch /\ IdleNeb /\ IdleCat

NextFlux == convert_mags_to_flux

SpecFlux == InitFlux /\ [][NextFlux]_vars

(***************************************************************************)
(* calc_lum and calc_SFR                                                   *)
(*                                                                         *)
(* The collaborators are stand-ins: the extinction curve has the value 1   *)
(* at the rest wavelength of Halpha and 2 at that of Hbeta, and the        *)
(* cosmology gives the luminosity distance DL = z, in cm.  Astropy's       *)
(* units are those of the quantities, so .to('erg/s') changes no number.   *)
(***************************************************************************)
Ha_Hb_intrin == Dec(28, -1)

Ha_conversion == Dec(79, -43)

Lines == {"Halpha", "Hbeta"}

ErrKey(line) == IF line = "Halpha" THEN "Halpha_err" ELSE "Hbeta_err"

\* load_extinction(curve)(wave) at the rest wavelength of the line
alAV(line) == IF line = "Halpha" THEN DInt(1) ELSE DInt(2)

\* lines 120-124
DustAl(av, line) == IF av.given THEN DMul(av.val, alAV(line)) ELSE DInt(0)

\* cosmo.luminosity_distance(z)
luminosity_distance(zz) == DInt(zz)

FourPi == [c |-> 4, e |-> 0, p |-> 1]

\* 10**(al/2.5) * (4*np.pi * DL**2)
LumFactor(al, DL) ==
    DMul(DExp10(DDiv2p5(al)), DMul(FourPi, DMul(DL, DL)))

\* line 131
Lum(flux, al, DL) == DMul(flux, LumFactor(al, DL))

NoLumErr == DInt(-999)

\* lines 134-138
LumErr_GeqZero(flux_err, al, DL) ==
    IF ~DLess0(flux_err) THEN DMul(flux_err, LumFactor(al, DL))
    ELSE NoLumErr

LumErr(flux_err, al, DL) ==
    IF DGreater0(flux_err) THEN DMul(flux_err, LumFactor(al, DL))
    ELSE NoLumErr

\* calc_lum(neb_lines, line, z, cosmo, AV): <<Lum, Lum_err>>
CalcLum(nl, line, zz, av) ==
    LET al == DustAl(av, line)
        DL == luminosity_distance(zz)
    IN  <<Lum(nl[line], al, DL), LumErr(nl[ErrKey(line)], al, DL)>>

calc_lum(line) ==
    /\ pc = "start"
    /\ pc' = "calc_lum"
    /\ lum_ret' = [line |-> line,
                   Lum |-> CalcLum(neb_lines, line, z, AV)[1],
                   Lum_err |-> CalcLum(neb_lines, line, z, AV)[2]]
    /\ lum_calls' = lum_calls + 1
    /\ UNCHANGED <<neb_lines, z, AV, sfr_ret>>
    /\ UNCHANGED <<matchVars, fluxVars, catVars>>

Methods == {"Ha", "Hb", "OII"}

\* lines 160-167
KnownMethod(method) == method \in {"Ha", "Hb"}

SFRLine(method) == IF method = "Ha" THEN "Halpha" ELSE "Hbeta"

SFRConversion_NoRatio(method) == Ha_conversion

SFRConversion(method) ==
    IF method = "Ha" THEN Ha_conversion ELSE DMul(Ha_conversion, Ha_Hb_intrin)

NotCalled == [status |-> "none", SFR |-> DInt(0)]

\* calc_SFR(neb_lines, method, z, cosmo, AV); the caller keeps each result
calc_SFR(method) ==
    /\ pc \in {"start", "calc_SFR"}
    /\ sfr_ret[method].status = "none"
    /\ pc' = "calc_SFR"
    /\ IF KnownMethod(method)
       THEN /\ sfr_ret' = [sfr_ret EXCEPT ![method] =
                  [status |-> "ok",
                   SFR |-> DMul(CalcLum(neb_lines, SFRLine(method), z, AV)[1],
                                SFRConversion(method))]]
            /\ lum_calls' = lum_calls + 1
       ELSE /\ sfr_ret' = [sfr_ret EXCEPT ![method] =
                  [status |-> "raised", SFR |-> DInt(0)]]
            /\ lum_calls' = lum_calls
    /\ UNCHANGED <<neb_lines, z, AV, lum_ret>>
    /\ UNCHANGED <<matchVars, fluxVars, catVars>>

FluxVals == {DInt(f) : f \in 1..MaxFlux} \cup {Dec(28 * f, -1) : f \in 1..MaxFlux}

FluxErrVals == {DInt(-999)} \cup {DInt(e) : e \in (-1)..MaxFluxErr}

AVVals == {[given |-> FALSE, val |-> DInt(0)]}
             \cup {[given |-> TRUE, val |-> Dec(25 * k, -1)] : k \in 0..MaxAV}

InitNeb ==
    /\ pc = "start"
    /\ neb_lines \in [Halpha : FluxVals, Hbeta : FluxVals,
                      Halpha_err : FluxErrVals, Hbeta_err : FluxErrVals]
    /\ z \in 1..MaxZ
    /\ AV \in AVVals
    /\ lum_ret = [line |-> "", Lum |-> DInt(0), Lum_err |-> DInt(0)]
    /\ sfr_ret = [m \in Methods |-> NotCalled]
    /\ lum_calls = 0
    /\ IdleMatch /\ IdleFlux /\ IdleCat

NextNeb ==
    \/ \E line \in Lines : calc_lum(line)
    \/ \E method \in Methods : calc_SFR(method)

SpecNeb == InitNeb /\ [][NextNeb]_vars

(***************************************************************************)
(* sort_by_separation and summarize_catalog                                *)
(*                                                                         *)
(* The sources and the reference coordinate lie on the equator (dec = 0),  *)
(* where the angular separation is the difference of the right             *)
(* ascensions, so that separations are integers: degrees, 60 times that    *)
(* in arcmin, 3600 times that in arcsec.  The table has the columns ra     *)
(* and dec (each may be missing) and one photometry column.                *)
(***************************************************************************)
photom_column == "DES_r"

radec == <<"ra", "dec">>

NumRows(t) == ArrLen(t[photom_column])

Abs(n) == IF n < 0 THEN -n ELSE n

\* coord.separation(SkyCoord(ra=..., dec=..., unit='deg')), in degrees, of
\* sources at dec = 0 from the coordinate (c, 0)
Separations(t, c) ==
    [i \in DOMAIN t["ra"] |-> Abs(t["ra"][i] - c) + Abs(t["dec"][i])]

\* catalog[isrt]: the rows of a table at the given indices
TakeRows(t, idx) == [col \in DOMAIN t |-> [k \in DOMAIN idx |-> t[col][idx[k]]]]

\* catalog['separation'] = ...
SetColumn(t, col, data) ==
    [c \in DOMAIN t \cup {col} |-> IF c = col THEN data ELSE t[c]]

\* lines 75-78: a key of radec that is no column of the catalog
MissingKey_FirstOnly(t, keys) == keys[1] \notin DOMAIN t

MissingKey(t, keys) == \E k \in DOMAIN keys : keys[k] \notin DOMAIN t

NoTable == EmptyArr

sort_by_separation(add_sep) ==
    /\ pc = "start"
    /\ pc' = "sort_by_separation"
    /\ cat_args' = [add_sep |-> add_sep]
    /\ IF MissingKey(catalog, radec)
       THEN \* line 78
            /\ cat_ret' = [raised |-> "IOError", table |-> NoTable]
            /\ catalog' = catalog
       ELSE IF \E k \in DOMAIN radec : radec[k] \notin DOMAIN catalog
       THEN \* lines 80-81: catalog[radec[k]] of a missing column
            /\ cat_ret' = [raised |-> "KeyError", table |-> NoTable]
            /\ catalog' = catalog
       ELSE LET seps == Separations(catalog, coord)
                cat1 == IF add_sep
                        THEN SetColumn(catalog, "separation",
                                       [i \in DOMAIN seps |-> 60 * seps[i]])
                        ELSE catalog
            IN  \E isrt \in ArgSorts(seps) :
                    /\ catalog' = cat1
                    /\ cat_ret' = [raised |-> "none",
                                   table |-> TakeRows(cat1, isrt)]
    /\ UNCHANGED coord
    /\ UNCHANGED <<matchVars, fluxVars, nebVars>>

\* np.argmin(a), np.argmax(a): the first index of the extreme value
argmin(a) == Min({i \in DOMAIN a : \A j \in DOMAIN a : a[i] <= a[j]})

argmax(a) == Min({i \in DOMAIN a : \A j \in DOMAIN a : a[i] >= a[j]})

\* lines 141-167; a line of text is the record of the values it prints
SummaryList(t, c, summary_radius, magnitude) ==
    LET seps == Separations(t, c)
        in_radius == [i \in DOMAIN seps |-> seps[i] < summary_radius]
        count == Cardinality({i \in DOMAIN seps : in_radius[i]})
        phot == Compress(t[photom_column], in_radius)
        brightest == IF magnitude THEN argmin(phot) ELSE argmax(phot)
        closest == argmin(Compress(seps, in_radius))
    IN  <<[line |-> "count", n |-> count, arcsec |-> 3600 * summary_radius]>>
        \o (IF \E i \in DOMAIN seps : in_radius[i]
            THEN <<[line |-> "brightest", value |-> phot[brightest]],
                   [line |-> "closest",
                    arcsec |-> 3600 * Compress(seps, in_radius)[closest],
                    value |-> phot[brightest]]>>
            ELSE <<>>)

summarize_catalog(summary_radius, magnitude) ==
    /\ pc = "start"
    /\ pc' = "summarize_catalog"
    /\ cat_args' = [summary_radius |-> summary_radius, magnitude |-> magnitude]
    /\ IF "ra" \notin DOMAIN catalog \/ "dec" \notin DOMAIN catalog
       THEN \* line 143: catalog['ra'], catalog['dec'] of a missing column
            cat_ret' = [raised |-> "KeyError", summary_list |-> <<>>]
       ELSE cat_ret' = [raised |-> "none",
                        summary_list |->
                            SummaryList(catalog, coord, summary_radius, magnitude)]
    /\ UNCHANGED <<catalog, coord>>
    /\ UNCHANGED <<matchVars, fluxVars, nebVars>>

\* the catalogs of at most m sources with values up to v
Catalogs(m, v) ==
    UNION {[{photom_column} \cup C -> [0..(n - 1) -> 0..v]] :
              <<n, C>> \in (0..m) \X (SUBSET {"ra", "dec"})}

InitCat ==
    /\ pc = "start"
    /\ catalog \in Catalogs(MaxSrc, IF MaxRa > MaxPhot THEN MaxRa ELSE MaxPhot)
    /\ \A i \in DOMAIN catalog[photom_column] :
          /\ catalog[photom_column][i] \in 1..MaxPhot
          /\ "ra" \in DOMAIN catalog => catalog["ra"][i] \in 0..MaxRa
          /\ "dec" \in DOMAIN catalog => catalog["dec"][i] = 0
    /\ coord \in 0..MaxRa
    /\ cat_args = EmptyArr
    /\ cat_ret = EmptyArr
    /\ IdleMatch /\ IdleFlux /\ IdleNeb

NextCat ==
    \/ \E add_sep \in BOOLEAN : sort_by_separation(add_sep)
    \/ \E r \in 1..MaxRadius, m \in BOOLEAN : summarize_catalog(r, m)

SpecCat == InitCat /\ [][NextCat]_vars

(***************************************************************************)
(* Claims about match_ids.                                                 *)
(***************************************************************************)
Absent(i) == \A j \in DOMAIN match_IDs : match_IDs[j] # IDs[i]

FirstIndex(i) == Min({j \in DOMAIN match_IDs : match_IDs[j] = IDs[i]})

\* C1: for every element of IDs that occurs in match_IDs, the returned row
\* is the lowest index of match_IDs holding that element, also when
\* match_IDs holds an id several times and whatever its order.
C1_LowestIndex ==
    (pc = "match_ids" /\ ~match_ret.raised) =>
        \A i \in DOMAIN IDs :
            ~Absent(i) => match_ret.rows[i] = FirstIndex(i)

\* C5: with require_in_match the call raises exactly when some element of
\* IDs is absent from match_IDs, and then returns no rows; without it the
\* call never raises, returns -1 exactly at the absent positions and a
\* valid index of match_IDs at every other position.
C5_UnmatchedHandling ==
    pc = "match_ids" =>
        /\ require_in_match =>
              /\ match_ret.raised <=> \E i \in DOMAIN IDs : Absent(i)
              /\ match_ret.raised => match_ret.rows = NoRows
        /\ ~require_in_match =>
              /\ ~match_ret.raised
              /\ DOMAIN match_ret.rows = DOMAIN IDs
              /\ \A i \in DOMAIN IDs :
                    IF Absent(i)
                    THEN match_ret.rows[i] = -1
                    ELSE match_ret.rows[i] \in DOMAIN match_IDs

\* a non-strict call that returned both a -1 and a row
C5_Witness ==
    /\ pc = "match_ids"
    /\ ~require_in_match
    /\ ~match_ret.raised
    /\ \E i, k \in DOMAIN IDs :
          /\ Absent(i) /\ match_ret.rows[i] = -1
          /\ ~Absent(k) /\ match_ret.rows[k] \in DOMAIN match_IDs

(***************************************************************************)
(* Claims about convert_mags_to_flux.                                      *)
(***************************************************************************)
\* the name under which a column of the input is found in the output
OutCol(col) == IF col \in DOMAIN fluxtable THEN col ELSE ReplaceW(col)

\* every magnitude column of the input has its _err column
WithAllErrs ==
    \A f \in DetectMagCols(photometry_table) :
        ErrName[f] \in DOMAIN photometry_table

\* C2: for every recognized filter column and every row whose magnitude is
\* negative, the output holds -99 in the flux column and in the matching
\* flux-error column, whatever the magnitude error of that row; every row
\* with non-negative magnitude and error is converted numerically with its
\* flux error flux * (10^(mag_err/2.5) - 1).  Stated for tables in which
\* every magnitude column has its error column.
C2_BadMagBothSentinel ==
    (pc = "convert_mags_to_flux" /\ WithAllErrs) =>
        \A f \in DetectMagCols(photometry_table) : \A r \in Rows :
            LET mag == photometry_table[f][r]
                mag_err == photometry_table[ErrName[f]][r]
                flux == fluxtable[OutCol(f)][r]
                flux_err == fluxtable[OutCol(ErrName[f])][r]
            IN  /\ DLess0(mag) => (flux = BadValue /\ flux_err = BadValue)
                /\ (~DLess0(mag) /\ ~DLess0(mag_err)) =>
                       /\ DGreater0(flux)
                       /\ flux_err = ErrToFlux(flux, mag_err)

\* C3: the flux of every column whose name contains "VISTA" is computed
\* with a zero point of the VISTA table, not with the default AB zero
\* point.  Stated for tables in which every magnitude column has its error
\* column.
C3_VistaZeroPoint ==
    (pc = "convert_mags_to_flux" /\ WithAllErrs) =>
        \A f \in DetectMagCols(photometry_table) : \A r \in Rows :
            (ContainsVISTA(f) /\ ~DLess0(photometry_table[f][r])) =>
                /\ fluxtable[f][r] \in
                      {MagToFlux(vista_fnu0[i], photometry_table[f][r]) :
                          i \in DOMAIN vista_fnu0}
                /\ fluxtable[f][r] # MagToFlux(AB_fnu0, photometry_table[f][r])

\* the zero point of a WISE band
WiseBand(f) ==
    CASE f = "W1" -> 1 [] f = "W2" -> 2 [] f = "W3" -> 3 [] f = "W4" -> 4

\* C9: each WISE band column present in the table is converted with the
\* zero point of its own band, for every subset of bands present, and its
\* error column with its own band's flux, also when some band lacks an
\* error column.
C9_WiseOwnZeroPoint ==
    pc = "convert_mags_to_flux" =>
        \A f \in DetectMagCols(photometry_table) : \A r \in Rows :
            (ContainsW(f) /\ ~DLess0(photometry_table[f][r])) =>
                /\ fluxtable[OutCol(f)][r] =
                      MagToFlux(wise_fnu0[WiseBand(f)], photometry_table[f][r])
                /\ (/\ ErrName[f] \in DOMAIN photometry_table
                    /\ ~DLess0(photometry_table[ErrName[f]][r])) =>
                       fluxtable[OutCol(ErrName[f])][r] =
                           ErrToFlux(fluxtable[OutCol(f)][r],
                                     photometry_table[ErrName[f]][r])

(***************************************************************************)
(* Claims about calc_lum and calc_SFR.                                     *)
(***************************************************************************)
\* C4: whenever neb_lines[line+'_err'] is not positive (zero, negative or
\* the -999 sentinel), the luminosity error returned is exactly -999,
\* whatever the flux, the redshift and AV: the -999 is not multiplied by
\* the dust correction or by 4*pi*DL^2.
C4_LumErrSentinel ==
    (pc = "calc_lum" /\ ~DGreater0(neb_lines[ErrKey(lum_ret.line)])) =>
        lum_ret.Lum_err = DInt(-999)

\* a call with a zero flux error and a dust correction
C4_Witness ==
    /\ pc = "calc_lum"
    /\ neb_lines[ErrKey(lum_ret.line)] = DInt(0)
    /\ AV.given /\ DGreater0(AV.val)
    /\ z > 1
    /\ lum_ret.Lum_err = DInt(-999)
    /\ lum_ret.Lum # DInt(-999)

NoExtinction == ~AV.given \/ AV.val = DInt(0)

IntrinsicRatio == neb_lines["Halpha"] = DMul(Ha_Hb_intrin, neb_lines["Hbeta"])

\* C6: for the same redshift and cosmology and no extinction (AV None or
\* 0), if Halpha = 2.8 * Hbeta then calc_SFR(method='Hb') equals
\* calc_SFR(method='Ha'); any other method raises without a luminosity
\* being computed.
C6_SFRMethodsAgree ==
    pc = "calc_SFR" =>
        /\ (/\ sfr_ret["Ha"].status = "ok" /\ sfr_ret["Hb"].status = "ok"
            /\ NoExtinction /\ IntrinsicRatio) =>
               sfr_ret["Hb"].SFR = sfr_ret["Ha"].SFR
        /\ \A m \in Methods : sfr_ret[m].status # "none" =>
               (sfr_ret[m].status = "raised" <=> m \notin {"Ha", "Hb"})
        /\ lum_calls = Cardinality({m \in Methods : sfr_ret[m].status = "ok"})

\* both methods were run on fluxes in the intrinsic ratio, with AV = 0
C6_Witness ==
    /\ pc = "calc_SFR"
    /\ sfr_ret["Ha"].status = "ok" /\ sfr_ret["Hb"].status = "ok"
    /\ sfr_ret["OII"].status = "raised"
    /\ AV.given /\ AV.val = DInt(0)
    /\ IntrinsicRatio
    /\ sfr_ret["Hb"].SFR = sfr_ret["Ha"].SFR
    /\ DGreater0(sfr_ret["Ha"].SFR)

(***************************************************************************)
(* Claims about summarize_catalog and sort_by_separation.                  *)
(***************************************************************************)
InRadius == {i \in DOMAIN catalog["ra"] :
                Separations(catalog, coord)[i] < cat_args.summary_radius}

Closest == {i \in InRadius :
               \A j \in InRadius :
                   Separations(catalog, coord)[i] <= Separations(catalog, coord)[j]}

\* C7: when a source lies within summary_radius, the third line reports the
\* separation of the closest source in the radius and that same source's
\* value of photom_column (of one of them, when several are as close);
\* when none does, the result is the count line alone.
C7_ClosestLineValue ==
    (pc = "summarize_catalog" /\ cat_ret.raised = "none") =>
        IF InRadius # {}
        THEN /\ Len(cat_ret.summary_list) = 3
             /\ cat_ret.summary_list[3].line = "closest"
             /\ \E i \in Closest :
                   /\ cat_ret.summary_list[3].arcsec =
                          3600 * Separations(catalog, coord)[i]
                   /\ cat_ret.summary_list[3].value = catalog[photom_column][i]
        ELSE /\ Len(cat_ret.summary_list) = 1
             /\ cat_ret.summary_list[1].line = "count"

SortCall == pc = "start" /\ pc' = "sort_by_separation"

\* C8: if a column named in radec is absent from the catalog, the call
\* raises the error of its check, before any separation is computed,
\* returns no table and leaves the catalog as it was.
C8_MissingColumnRaises ==
    [][(SortCall /\ \E k \in DOMAIN radec : radec[k] \notin DOMAIN catalog) =>
          /\ cat_ret'.raised = "IOError"
          /\ cat_ret'.table = NoTable
          /\ catalog' = catalog]_vars

\* a call on a catalog with sources and ra, but no dec
C8_Witness ==
    /\ pc = "sort_by_separation"
    /\ "ra" \in DOMAIN catalog /\ "dec" \notin DOMAIN catalog
    /\ NumRows(catalog) > 0
    /\ cat_args.add_sep
    /\ cat_ret.raised = "IOError"
    /\ "separation" \notin DOMAIN catalog

IsPermutation(idx, n) ==
    /\ DOMAIN idx = 0..(n - 1)
    /\ \A i \in 0..(n - 1) : \E k \in DOMAIN idx : idx[k] = i

\* C10: a successful call with add_sep=True leaves the caller's catalog
\* with the columns and the row order it had; the 'separation' column is
\* in the returned table only, whose rows are the input's rows in
\* ascending order of separation.
C10_CatalogUntouched ==
    [][(SortCall /\ cat_ret'.raised = "none" /\ cat_args'.add_sep) =>
          /\ catalog' = catalog
          /\ "separation" \in DOMAIN cat_ret'.table
          /\ \A i, j \in DOMAIN cat_ret'.table["separation"] :
                i < j => cat_ret'.table["separation"][i]
                            <= cat_ret'.table["separation"][j]
          /\ \E idx \in [0..(NumRows(catalog) - 1) -> 0..(NumRows(catalog) - 1)] :
                /\ IsPermutation(idx, NumRows(catalog))
                /\ \A col \in DOMAIN catalog :
                      cat_ret'.table[col] = TakeRows(catalog, idx)[col]]_vars

=============================================================================
